---- MODULE Spec2Model ----
(***************************************************************************)
(* State-machine model of services/queue_service.py (QueueService): the    *)
(* per-chat pending queue, current track, history, loop mode and shuffle   *)
(* flag, kept in five dictionaries keyed by chat id; and of                *)
(* services/music_service.py (MusicService), the playback state behind the *)
(* /play, /skip, /previous, /clear and /queue commands of handlers/.       *)
(*                                                                         *)
(* A Python dict is a TLA+ function whose DOMAIN is the set of keys the    *)
(* dict holds; a Python list is a sequence (index i of the list is index   *)
(* i+1 of the sequence).  A Track is a positive integer (two tracks are    *)
(* equal, as pydantic compares them, iff they are the same integer) and    *)
(* Python's None is 0.                                                     *)
(***************************************************************************)
EXTENDS Integers, Sequences, FiniteSets, TLC

VARIABLES
    queues,          \* self.queues:         chat_id -> list of Track
    current_tracks,  \* self.current_tracks: chat_id -> Optional[Track]
    history,         \* self.history:        chat_id -> list of Track
    loop_modes,      \* self.loop_modes:     chat_id -> str
    shuffle_modes,   \* self.shuffle_modes:  chat_id -> bool
    last,            \* the call that ran last and what it returned
    log,             \* history variable: the calls made so far (trace specifications only)
    music,           \* the MusicService object: its playback fields
    tally,           \* history variable: enqueues made, tracks returned, history entries dropped
    held             \* the list object a caller of get_queue holds on to

vars == <<queues, current_tracks, history, loop_modes, shuffle_modes, last, log, music, tally, held>>

svars == <<queues, current_tracks, history, loop_modes, shuffle_modes>>

\* what the operations of QueueService on its own never touch
mvars == <<music, tally, held>>

(***************************************************************************)
(* Bounds of the model.                                                    *)
(***************************************************************************)
MaxQueue == 2       \* Spec: enqueue and previous are offered while pending stays within this
HistCap == 2        \* Spec: get_next_track is offered while history stays within this
MaxQueueChats == 1  \* SpecChats: as MaxQueue
HistCapChats == 1   \* SpecChats: as HistCap
MaxOps == 6         \* SpecTrace: number of calls logged
MaxFresh == 53      \* SpecHistory: number of distinct tracks enqueued
MaxPending == 4     \* SpecEnqueue: enqueues are offered while pending stays within this
MaxCalls == 5       \* SpecEnqueue: number of calls logged
MaxModeCalls == 7   \* SpecModes: number of calls logged
MaxDistinct == 4    \* SpecDistinct: number of enqueues, each of a new track
MaxRoundCalls == 8  \* SpecRoundTrip: number of calls logged

\* The chat ids of SpecChats; the other specifications address SoloChat.
Chats == {1, 2}

SoloChat == 1

\* The tracks offered to the enqueue operations.
Tracks == {1, 2}

None == 0

\* The strings offered to set_loop_mode: the three modes and one that is none of them.
ModeInputs == {"none", "single", "all", "bogus"}

(***************************************************************************)
(* Python's dict and list operations.                                      *)
(***************************************************************************)
\* d.get(k, default)
Get(d, k, default) == IF k \in DOMAIN d THEN d[k] ELSE default

\* d[k] = v
Put(d, k, v) == [x \in (DOMAIN d) \cup {k} |-> IF x = k THEN v ELSE d[x]]

\* bool(t) of an Optional[Track]: a Track (a pydantic model) is truthy, None is not
Truthy(t) == t # None

\* s[:n]
Take(s, n) == SubSeq(s, 1, IF n < Len(s) THEN n ELSE Len(s))

\* s after s.insert(i, x), 0 <= i <= len(s)
Insert(s, i, x) == SubSeq(s, 1, i) \o <<x>> \o SubSeq(s, i + 1, Len(s))

\* s after s.pop(i), 0 <= i < len(s)
Pop(s, i) == SubSeq(s, 1, i) \o SubSeq(s, i + 2, Len(s))

\* x in s
Contains(s, x) == \E i \in 1..Len(s) : s[i] = x

\* index (1-based) of the first element equal to x
FirstIndex(s, x) == CHOOSE i \in 1..Len(s) : s[i] = x /\ \A j \in 1..(i - 1) : s[j] # x

\* s after s.remove(x): the first element equal to x is removed
RemoveFirst(s, x) == Pop(s, FirstIndex(s, x) - 1)

\* mutant of Shuffles: a track falls out of the list
ShufflesDropping(s) == {IF s = <<>> THEN s ELSE Tail(s)}

\* the orders random.shuffle(s) can leave s in
Shuffles(s) ==
    LET n == Len(s)
        bij == {p \in [1..n -> 1..n] : \A i, j \in 1..n : p[i] = p[j] => i = j}
    IN  {[i \in 1..n |-> s[p[i]]] : p \in bij}

(***************************************************************************)
(* What a call reports: its name, the chat it addressed, its other         *)
(* arguments and the value it returned.                                    *)
(***************************************************************************)
Call(op, c, args, ret) == [op |-> op, chat |-> c, args |-> args, ret |-> ret]

(***************************************************************************)
(* Accessors.                                                              *)
(***************************************************************************)
GetQueue(c) == Get(queues, c, <<>>)

GetCurrentTrack(c) == Get(current_tracks, c, None)

GetHistory(c, limit) == Take(Get(history, c, <<>>), limit)

\* mutant of GetLoopMode: a chat without an entry reads as looping one track
GetLoopModeSingle(c) == Get(loop_modes, c, "single")

GetLoopMode(c) == Get(loop_modes, c, "none")

GetShuffleMode(c) == Get(shuffle_modes, c, FALSE)

\* self.history.get(chat_id, []): the whole history list
History(c) == Get(history, c, <<>>)

\* one chat's session as the accessors show it
Session(c) ==
    [queue |-> GetQueue(c), current |-> GetCurrentTrack(c), history |-> History(c),
     loop |-> GetLoopMode(c), shuffle |-> GetShuffleMode(c)]

(***************************************************************************)
(* Init: QueueService.__init__, five empty dictionaries, and               *)
(* MusicService.__init__; nothing counted, no list handed out.             *)
(***************************************************************************)
Empty == [x \in {} |-> None]

\* the playback fields MusicService.__init__ sets
NewMusicService ==
    [current_track |-> None, queue |-> <<>>, history |-> <<>>, is_playing |-> FALSE,
     is_paused |-> FALSE, volume |-> 100, loop_mode |-> "none", shuffle_mode |-> FALSE]

\* no caller holds a list yet
NoList == [state |-> "none", chat |-> 0, list |-> <<>>]

Init ==
    /\ queues = Empty
    /\ current_tracks = Empty
    /\ history = Empty
    /\ loop_modes = Empty
    /\ shuffle_modes = Empty
    /\ last = Call("init", 0, <<>>, None)
    /\ log = <<>>
    /\ music = NewMusicService
    /\ tally = [enqueued |-> 0, returned |-> <<>>, dropped |-> 0]
    /\ held = NoList

(***************************************************************************)
(* Operations.                                                             *)
(***************************************************************************)
\* mutant of AddToQueue: the chat's list is constructed again by every call
AddToQueueRebuilt(c, t) ==
    /\ queues' = Put(queues, c, <<t>>)
    /\ last' = Call("add_to_queue", c, <<t>>, TRUE)
    /\ UNCHANGED <<current_tracks, history, loop_modes, shuffle_modes>>

AddToQueue(c, t) ==
    /\ queues' = Put(queues, c, Append(GetQueue(c), t))
    /\ last' = Call("add_to_queue", c, <<t>>, TRUE)
    /\ UNCHANGED <<current_tracks, history, loop_modes, shuffle_modes>>

\* mutant of AddTracksToQueue: the tracks are put in front of the pending ones
AddTracksToQueueFront(c, ts) ==
    /\ queues' = Put(queues, c, ts \o GetQueue(c))
    /\ last' = Call("add_tracks_to_queue", c, <<ts>>, Len(ts))
    /\ UNCHANGED <<current_tracks, history, loop_modes, shuffle_modes>>

AddTracksToQueue(c, ts) ==
    /\ queues' = Put(queues, c, GetQueue(c) \o ts)
    /\ last' = Call("add_tracks_to_queue", c, <<ts>>, Len(ts))
    /\ UNCHANGED <<current_tracks, history, loop_modes, shuffle_modes>>

\* mutant of ClearQueue: the whole dictionary is reset, not the chat's entry
ClearEveryQueue(c) ==
    /\ queues' = [x \in (DOMAIN queues) \cup {c} |-> <<>>]
    /\ last' = Call("clear_queue", c, <<>>, TRUE)
    /\ UNCHANGED <<current_tracks, history, loop_modes, shuffle_modes>>

\* mutant of ClearQueue: playback is reset with the queue
ClearQueueStopping(c) ==
    /\ queues' = Put(queues, c, <<>>)
    /\ current_tracks' = Put(current_tracks, c, None)
    /\ last' = Call("clear_queue", c, <<>>, TRUE)
    /\ UNCHANGED <<history, loop_modes, shuffle_modes>>

ClearQueue(c) ==
    /\ queues' = Put(queues, c, <<>>)
    /\ last' = Call("clear_queue", c, <<>>, TRUE)
    /\ UNCHANGED <<current_tracks, history, loop_modes, shuffle_modes>>

\* mutant of RemoveFromQueue: an index equal to the length is let through (> for >=)
RemoveFromQueuePastEnd(c, index) ==
    IF c \notin DOMAIN queues \/ index > Len(queues[c]) \/ index < 0
    THEN /\ last' = Call("remove_from_queue", c, <<index>>, None)
         /\ UNCHANGED svars
    ELSE /\ queues' = [queues EXCEPT ![c] = Pop(@, index)]
         /\ last' = Call("remove_from_queue", c, <<index>>,
                         IF index < Len(queues[c]) THEN queues[c][index + 1] ELSE 1)
         /\ UNCHANGED <<current_tracks, history, loop_modes, shuffle_modes>>

\* mutant of MoveInQueue: the track is put back one place too early
MoveInQueueShort(c, old_index, new_index) ==
    IF c \notin DOMAIN queues
    THEN /\ last' = Call("move_in_queue", c, <<old_index, new_index>>, FALSE)
         /\ UNCHANGED svars
    ELSE LET queue == queues[c] IN
         IF old_index < 0 \/ old_index >= Len(queue) \/ new_index < 0 \/ new_index >= Len(queue)
         THEN /\ last' = Call("move_in_queue", c, <<old_index, new_index>>, FALSE)
              /\ UNCHANGED svars
         ELSE /\ queues' = [queues EXCEPT ![c] =
                              Insert(Pop(queue, old_index),
                                     IF new_index > 0 THEN new_index - 1 ELSE 0,
                                     queue[old_index + 1])]
              /\ last' = Call("move_in_queue", c, <<old_index, new_index>>, TRUE)
              /\ UNCHANGED <<current_tracks, history, loop_modes, shuffle_modes>>

RemoveFromQueue(c, index) ==
    IF c \notin DOMAIN queues \/ index >= Len(queues[c]) \/ index < 0
    THEN /\ last' = Call("remove_from_queue", c, <<index>>, None)
         /\ UNCHANGED svars
    ELSE /\ queues' = [queues EXCEPT ![c] = Pop(@, index)]
         /\ last' = Call("remove_from_queue", c, <<index>>, queues[c][index + 1])
         /\ UNCHANGED <<current_tracks, history, loop_modes, shuffle_modes>>

MoveInQueue(c, old_index, new_index) ==
    IF c \notin DOMAIN queues
    THEN /\ last' = Call("move_in_queue", c, <<old_index, new_index>>, FALSE)
         /\ UNCHANGED svars
    ELSE LET queue == queues[c] IN
         IF old_index < 0 \/ old_index >= Len(queue) \/ new_index < 0 \/ new_index >= Len(queue)
         THEN /\ last' = Call("move_in_queue", c, <<old_index, new_index>>, FALSE)
              /\ UNCHANGED svars
         ELSE /\ queues' = [queues EXCEPT ![c] = Insert(Pop(queue, old_index), new_index, queue[old_index + 1])]
              /\ last' = Call("move_in_queue", c, <<old_index, new_index>>, TRUE)
              /\ UNCHANGED <<current_tracks, history, loop_modes, shuffle_modes>>

\* mutant of AddToHistory: the trim is left out
AddToHistoryUntrimmed(c, track, max_history) == Put(history, c, <<track>> \o Get(history, c, <<>>))

\* self.history after _add_to_history(c, track, max_history)
AddToHistory(c, track, max_history) ==
    LET h == <<track>> \o Get(history, c, <<>>)
    IN  Put(history, c, IF Len(h) > max_history THEN Take(h, max_history) ELSE h)

\* the default of _add_to_history's max_history parameter
DefaultMaxHistory == 50

\* the number of entries the trim of _add_to_history(c, track, max_history) discards
Overflow(c, max_history) ==
    LET n == Len(Get(history, c, <<>>)) + 1
    IN  IF n > max_history THEN n - max_history ELSE 0

\* mutant of PoppedTrack: pop() for pop(0), the newest pending track is played
PoppedTrackLast(queue) == queue[Len(queue)]

\* the track self.queues[chat_id].pop(0) returns
PoppedTrack(queue) == Head(queue)

\* mutant of AfterPop: the played track is read, not removed
AfterPopKept(queue) == queue

\* the queue self.queues[chat_id].pop(0) leaves
AfterPop(queue) == Tail(queue)

\* mutant of Requeue: the played track is never put back
RequeueNever(popped, loop_mode, next_track) == popped

\* mutant of Requeue: the played track goes back to the end in every loop mode
RequeueAlways(popped, loop_mode, next_track) ==
    IF Truthy(next_track) THEN Append(popped, next_track) ELSE popped

\* the queue after the "Handle queue looping" step: under "all" the track goes back to the end
Requeue(popped, loop_mode, next_track) ==
    IF loop_mode = "all" /\ Truthy(next_track) THEN Append(popped, next_track) ELSE popped

\* mutant of GetNextTrack: on an empty queue the current track is cleared, as play_next does
GetNextTrackIdling(c) ==
    IF c \notin DOMAIN queues \/ queues[c] = <<>>
    THEN /\ last' = Call("get_next_track", c, <<>>, None)
         /\ current_tracks' = Put(current_tracks, c, None)
         /\ UNCHANGED <<queues, history, loop_modes, shuffle_modes>>
    ELSE LET loop_mode == GetLoopMode(c)
             has_current == c \in DOMAIN current_tracks /\ Truthy(current_tracks[c])
         IN  IF loop_mode = "single" /\ has_current
             THEN /\ last' = Call("get_next_track", c, <<>>, current_tracks[c])
                  /\ UNCHANGED svars
             ELSE LET next_track == PoppedTrack(queues[c])
                      popped == AfterPop(queues[c])
                  IN  /\ history' = IF has_current
                                    THEN AddToHistory(c, current_tracks[c], DefaultMaxHistory)
                                    ELSE history
                      /\ current_tracks' = Put(current_tracks, c, next_track)
                      /\ queues' = [queues EXCEPT ![c] = Requeue(popped, loop_mode, next_track)]
                      /\ last' = Call("get_next_track", c, <<>>, next_track)
                      /\ UNCHANGED <<loop_modes, shuffle_modes>>

GetNextTrack(c) ==
    IF c \notin DOMAIN queues \/ queues[c] = <<>>
    THEN /\ last' = Call("get_next_track", c, <<>>, None)
         /\ UNCHANGED svars
    ELSE LET loop_mode == GetLoopMode(c)
             has_current == c \in DOMAIN current_tracks /\ Truthy(current_tracks[c])
         IN  IF loop_mode = "single" /\ has_current
             THEN /\ last' = Call("get_next_track", c, <<>>, current_tracks[c])
                  /\ UNCHANGED svars
             ELSE LET next_track == PoppedTrack(queues[c])
                      popped == AfterPop(queues[c])
                  IN  /\ history' = IF has_current
                                    THEN AddToHistory(c, current_tracks[c], DefaultMaxHistory)
                                    ELSE history
                      /\ current_tracks' = Put(current_tracks, c, next_track)
                      /\ queues' = [queues EXCEPT ![c] = Requeue(popped, loop_mode, next_track)]
                      /\ last' = Call("get_next_track", c, <<>>, next_track)
                      /\ UNCHANGED <<loop_modes, shuffle_modes>>

\* mutant of RequeueCurrent: the current track is not put back
RequeueCurrentDropped(queue, track) == queue

\* the queue after "Add current track back to the beginning of queue"
RequeueCurrent(queue, track) == Insert(queue, 0, track)

\* mutant of GetPreviousTrack: without history the head of pending is made current
GetPreviousTrackStarting(c) ==
    IF c \notin DOMAIN history \/ Len(history[c]) < 1
    THEN /\ last' = Call("get_previous_track", c, <<>>, None)
         /\ current_tracks' = IF GetQueue(c) # <<>>
                               THEN Put(current_tracks, c, Head(GetQueue(c)))
                               ELSE current_tracks
         /\ UNCHANGED <<queues, history, loop_modes, shuffle_modes>>
    ELSE LET prev_track == IF Len(history[c]) > 1 THEN history[c][2] ELSE history[c][1]
             has_current == c \in DOMAIN current_tracks /\ Truthy(current_tracks[c])
         IN  /\ queues' = IF has_current
                          THEN Put(queues, c, RequeueCurrent(GetQueue(c), current_tracks[c]))
                          ELSE queues
             /\ current_tracks' = Put(current_tracks, c, prev_track)
             /\ history' = [history EXCEPT ![c] =
                               IF Contains(@, prev_track) THEN RemoveFirst(@, prev_track) ELSE @]
             /\ last' = Call("get_previous_track", c, <<>>, prev_track)
             /\ UNCHANGED <<loop_modes, shuffle_modes>>

GetPreviousTrack(c) ==
    IF c \notin DOMAIN history \/ Len(history[c]) < 1
    THEN /\ last' = Call("get_previous_track", c, <<>>, None)
         /\ UNCHANGED svars
    ELSE LET prev_track == IF Len(history[c]) > 1 THEN history[c][2] ELSE history[c][1]
             has_current == c \in DOMAIN current_tracks /\ Truthy(current_tracks[c])
         IN  /\ queues' = IF has_current
                          THEN Put(queues, c, RequeueCurrent(GetQueue(c), current_tracks[c]))
                          ELSE queues
             /\ current_tracks' = Put(current_tracks, c, prev_track)
             /\ history' = [history EXCEPT ![c] =
                               IF Contains(@, prev_track) THEN RemoveFirst(@, prev_track) ELSE @]
             /\ last' = Call("get_previous_track", c, <<>>, prev_track)
             /\ UNCHANGED <<loop_modes, shuffle_modes>>

\* mutant of StoredMode: the string is stored unchecked
StoredModeUnchecked(mode) == mode

\* the mode set_loop_mode stores and returns for the string it is given
StoredMode(mode) == IF mode \notin {"none", "single", "all"} THEN "none" ELSE mode

SetLoopMode(c, mode) ==
    /\ loop_modes' = Put(loop_modes, c, StoredMode(mode))
    /\ last' = Call("set_loop_mode", c, <<mode>>, StoredMode(mode))
    /\ UNCHANGED <<queues, current_tracks, history, shuffle_modes>>

\* mutant of NextLoopMode: "all" is left out of the cycle
NextLoopModeTwoWay(current_mode) == IF current_mode = "none" THEN "single" ELSE "none"

\* the mode toggle_loop_mode hands to set_loop_mode
NextLoopMode(current_mode) ==
    IF current_mode = "none" THEN "single"
    ELSE IF current_mode = "single" THEN "all"
    ELSE "none"

ToggleLoopMode(c) ==
    /\ loop_modes' = Put(loop_modes, c, StoredMode(NextLoopMode(GetLoopMode(c))))
    /\ last' = Call("toggle_loop_mode", c, <<>>, StoredMode(NextLoopMode(GetLoopMode(c))))
    /\ UNCHANGED <<queues, current_tracks, history, shuffle_modes>>

\* mutant of ShuffledQueues: the queue is shuffled whatever enabled is
ShuffledQueuesAlways(c, enabled) ==
    IF c \in DOMAIN queues
    THEN {[queues EXCEPT ![c] = q] : q \in Shuffles(queues[c])}
    ELSE {queues}

\* self.queues after set_shuffle_mode(c, enabled), for each order random.shuffle can choose
ShuffledQueues(c, enabled) ==
    IF enabled /\ c \in DOMAIN queues
    THEN {[queues EXCEPT ![c] = q] : q \in Shuffles(queues[c])}
    ELSE {queues}

SetShuffleMode(c, enabled) ==
    /\ shuffle_modes' = Put(shuffle_modes, c, enabled)
    /\ queues' \in ShuffledQueues(c, enabled)
    /\ last' = Call("set_shuffle_mode", c, <<enabled>>, enabled)
    /\ UNCHANGED <<current_tracks, history, loop_modes>>

ToggleShuffleMode(c) ==
    /\ shuffle_modes' = Put(shuffle_modes, c, ~GetShuffleMode(c))
    /\ queues' \in ShuffledQueues(c, ~GetShuffleMode(c))
    /\ last' = Call("toggle_shuffle_mode", c, <<>>, ~GetShuffleMode(c))
    /\ UNCHANGED <<current_tracks, history, loop_modes>>

(***************************************************************************)
(* The list get_queue returns.  self.queues.get(chat_id, []) hands out the *)
(* list object the dictionary holds ("live": its contents are whatever the *)
(* dictionary's list holds) or, for a chat without an entry, a new empty   *)
(* list of the caller's own ("own").  A list the caller holds stays the    *)
(* dictionary's list while the methods change that list in place (append,  *)
(* extend, pop, insert, shuffle); clear_queue assigns a new list to the    *)
(* entry, and the held list is then the caller's own, with the tracks it   *)
(* had.                                                                    *)
(***************************************************************************)
\* mutant of ReturnedList: get_queue returns a copy
ReturnedListCopied(c) == [state |-> "own", chat |-> c, list |-> Get(queues, c, <<>>)]

ReturnedList(c) ==
    IF c \in DOMAIN queues
    THEN [state |-> "live", chat |-> c, list |-> <<>>]
    ELSE [state |-> "own", chat |-> c, list |-> <<>>]

\* the tracks in a list handed out
Contents(h) == IF h.state = "live" THEN queues[h.chat] ELSE h.list

\* a caller runs q = get_queue(c) and keeps q
HoldQueue(c) ==
    /\ held' = ReturnedList(c)
    /\ last' = Call("get_queue", c, <<>>, GetQueue(c))
    /\ UNCHANGED svars

\* the caller changes the list it holds; new is what the list then contains
CallerMutates(op, args, new) ==
    /\ held.state # "none"
    /\ IF held.state = "live"
       THEN queues' = [queues EXCEPT ![held.chat] = new] /\ UNCHANGED held
       ELSE held' = [held EXCEPT !.list = new] /\ UNCHANGED queues
    /\ last' = Call(op, held.chat, args, None)
    /\ UNCHANGED <<current_tracks, history, loop_modes, shuffle_modes>>

\* q.append(t)
CallerAppend(t) == CallerMutates("list.append", <<t>>, Append(Contents(held), t))

\* q.pop(0)
CallerPop == Contents(held) # <<>> /\ CallerMutates("list.pop", <<0>>, Pop(Contents(held), 0))

Reverse(s) == [i \in 1..Len(s) |-> s[Len(s) + 1 - i]]

\* q.reverse()
CallerReverse == CallerMutates("list.reverse", <<>>, Reverse(Contents(held)))

\* the held list across self.queues[c] = []
Rebound(c) ==
    held' = IF held.state = "live" /\ held.chat = c
            THEN [state |-> "own", chat |-> c, list |-> queues[c]]
            ELSE held

(***************************************************************************)
(* MusicService: one object, made once in bot.py and handed to every       *)
(* handler module; its methods take no chat id.  Each method is an         *)
(* operator from the object's fields m to the fields it leaves and the     *)
(* value it returns.                                                       *)
(***************************************************************************)
Result(m, ret) == [music |-> m, ret |-> ret]

MusicAddToQueue(m, track) == Result([m EXCEPT !.queue = Append(@, track)], TRUE)

PlayNext(m) ==
    IF m.queue = <<>>
    THEN Result([m EXCEPT !.is_playing = FALSE, !.current_track = None], None)
    ELSE LET track == Head(m.queue)
             h == <<track>> \o m.history
         IN  Result([m EXCEPT !.queue = Tail(@),
                              !.current_track = track,
                              !.history = IF Len(h) > 50 THEN Take(h, 50) ELSE h,
                              !.is_playing = TRUE,
                              !.is_paused = FALSE],
                    track)

\* play_music(query), found being the first search result for query, or None
PlayMusic(m, found) ==
    IF ~Truthy(found)
    THEN Result(m, None)
    ELSE LET added == MusicAddToQueue(m, found).music
         IN  IF ~m.is_playing /\ ~m.is_paused THEN PlayNext(added) ELSE Result(added, found)

PauseMusic(m) ==
    IF m.is_playing /\ ~m.is_paused THEN Result([m EXCEPT !.is_paused = TRUE], TRUE) ELSE Result(m, FALSE)

ResumeMusic(m) ==
    IF m.is_paused THEN Result([m EXCEPT !.is_paused = FALSE], TRUE) ELSE Result(m, FALSE)

StopMusic(m) ==
    IF m.is_playing \/ m.is_paused
    THEN Result([m EXCEPT !.is_playing = FALSE, !.is_paused = FALSE], TRUE)
    ELSE Result(m, FALSE)

SkipMusic(m) ==
    IF m.loop_mode = "single" /\ Truthy(m.current_track)
    THEN PlayNext([m EXCEPT !.queue = Insert(@, 0, m.current_track)])
    ELSE PlayNext(m)

PreviousMusic(m) ==
    IF Len(m.history) < 2
    THEN Result(m, None)
    ELSE LET prev_track == m.history[2]
         IN  Result([m EXCEPT !.queue = IF Truthy(m.current_track)
                                         THEN Insert(@, 0, m.current_track)
                                         ELSE @,
                              !.current_track = prev_track,
                              !.history = RemoveFirst(@, prev_track),
                              !.is_playing = TRUE,
                              !.is_paused = FALSE],
                    prev_track)

MusicClearQueue(m) == Result([m EXCEPT !.queue = <<>>], TRUE)

MusicGetQueue(m) == Result(m, m.queue)

\* toggle_loop: none -> single -> all -> none
ToggleLoop(m) ==
    LET mode == IF m.loop_mode = "none" THEN "single"
                ELSE IF m.loop_mode = "single" THEN "all"
                ELSE "none"
    IN  Result([m EXCEPT !.loop_mode = mode], mode)

CurrentMusic(m) == Result(m, m.current_track)

(***************************************************************************)
(* The command handlers of handlers/basic_commands.py and                  *)
(* handlers/music_commands.py: a command sent in chat c calls the method   *)
(* of the one MusicService and replies in c with what it returned.         *)
(***************************************************************************)
Command(op, c, args, result) ==
    /\ music' = result.music
    /\ last' = Call(op, c, args, result.ret)
    /\ UNCHANGED <<svars, log, tally, held>>

PlayCommand(c, found) == Command("/play", c, <<found>>, PlayMusic(music, found))

PauseCommand(c) == Command("/pause", c, <<>>, PauseMusic(music))

ResumeCommand(c) == Command("/resume", c, <<>>, ResumeMusic(music))

StopCommand(c) == Command("/stop", c, <<>>, StopMusic(music))

SkipCommand(c) == Command("/skip", c, <<>>, SkipMusic(music))

PreviousCommand(c) == Command("/previous", c, <<>>, PreviousMusic(music))

ClearCommand(c) == Command("/clear", c, <<>>, MusicClearQueue(music))

QueueCommand(c) == Command("/queue", c, <<>>, MusicGetQueue(music))

CurrentCommand(c) == Command("/current", c, <<>>, CurrentMusic(music))

(***************************************************************************)
(* Spec: every operation of QueueService on one chat, in any order, within *)
(* the bounds.  SpecChats: every operation on two chats, within smaller    *)
(* bounds and with fewer inputs (one track, index 0, two mode strings).    *)
(***************************************************************************)
\* the lists offered to add_tracks_to_queue: of up to one track, or up to two (pairs)
TrackLists(tracks, pairs) ==
    {<<>>} \cup {<<t>> : t \in tracks} \cup (IF pairs THEN {<<t, u>> : t, u \in tracks} ELSE {})

HistoryWithin(n) == \A c \in DOMAIN history' : Len(history'[c]) <= n

QueueWithin(n) == \A c \in DOMAIN queues' : Len(queues'[c]) <= n

Step(c, tracks, pairs, maxq, hcap, indexes, modes) ==
    \/ \E t \in tracks : AddToQueue(c, t) /\ QueueWithin(maxq) /\ UNCHANGED <<log, mvars>>
    \/ \E ts \in TrackLists(tracks, pairs) : AddTracksToQueue(c, ts) /\ QueueWithin(maxq) /\ UNCHANGED <<log, mvars>>
    \/ ClearQueue(c) /\ UNCHANGED <<log, mvars>>
    \/ \E i \in indexes : RemoveFromQueue(c, i) /\ UNCHANGED <<log, mvars>>
    \/ \E i, j \in indexes : MoveInQueue(c, i, j) /\ UNCHANGED <<log, mvars>>
    \/ GetNextTrack(c) /\ HistoryWithin(hcap) /\ UNCHANGED <<log, mvars>>
    \/ GetPreviousTrack(c) /\ QueueWithin(maxq) /\ UNCHANGED <<log, mvars>>
    \/ \E m \in modes : SetLoopMode(c, m) /\ UNCHANGED <<log, mvars>>
    \/ ToggleLoopMode(c) /\ UNCHANGED <<log, mvars>>
    \/ \E e \in BOOLEAN : SetShuffleMode(c, e) /\ UNCHANGED <<log, mvars>>
    \/ ToggleShuffleMode(c) /\ UNCHANGED <<log, mvars>>

Next == Step(SoloChat, Tracks, TRUE, MaxQueue, HistCap, -1..MaxQueue, ModeInputs)

Spec == Init /\ [][Next]_vars

NextChats ==
    \E c \in Chats :
        Step(c, {1}, FALSE, MaxQueueChats, HistCapChats, {0}, {"all", "bogus"})

SpecChats == Init /\ [][NextChats]_vars

(***************************************************************************)
(* SpecTrace: enqueue, next, previous and set_loop_mode on one chat, each  *)
(* call appended to log with the session it left, up to MaxOps calls.      *)
(***************************************************************************)
Logged ==
    /\ log' = Append(log, [call |-> last', after |-> Session(SoloChat)'])
    /\ UNCHANGED mvars

NextTrace ==
    \/ \E t \in Tracks : Len(log) < MaxOps /\ AddToQueue(SoloChat, t) /\ Logged
    \/ Len(log) < MaxOps /\ GetNextTrack(SoloChat) /\ Logged
    \/ Len(log) < MaxOps /\ GetPreviousTrack(SoloChat) /\ Logged
    \/ \E m \in {"none", "single", "all"} : Len(log) < MaxOps /\ SetLoopMode(SoloChat, m) /\ Logged

SpecTrace == Init /\ [][NextTrace]_vars

\* the session of a chat no call has addressed yet
FreshSession ==
    [queue |-> <<>>, current |-> None, history |-> <<>>, loop |-> "none", shuffle |-> FALSE]

\* the session after the first i logged calls
StateAt(i) == IF i = 0 THEN FreshSession ELSE log[i].after

\* the logged calls i+1..j are all get_next_track
NextsOnly(i, j) == j <= Len(log) /\ \A k \in (i + 1)..j : log[k].call.op = "get_next_track"

(***************************************************************************)
(* SpecHistory: one chat, loop mode none; every enqueued track is a new    *)
(* one (1, 2, 3, ...), so that history can be seen to fill and overflow.   *)
(* The add_to_queue and get_next_track calls of the handlers that address  *)
(* the chat interleave in every order.  A call is one step: the methods of *)
(* QueueService are plain functions without an await, and the handlers are *)
(* coroutines of the one event loop app.run_polling() runs, so no call     *)
(* starts before the call in progress has returned.  tally counts the      *)
(* enqueues, collects what get_next_track returned and counts the entries  *)
(* the history trim discarded.                                             *)
(***************************************************************************)
SessionTracks(c) ==
    {GetQueue(c)[i] : i \in 1..Len(GetQueue(c))} \cup {History(c)[i] : i \in 1..Len(History(c))}
        \cup {GetCurrentTrack(c)}

NewTrack(c) == 1 + CHOOSE m \in SessionTracks(c) : \A t \in SessionTracks(c) : t <= m

\* get_next_track on chat c gets as far as _add_to_history
Retires(c) ==
    /\ GetQueue(c) # <<>>
    /\ Truthy(GetCurrentTrack(c))
    /\ GetLoopMode(c) # "single"

TallyEnqueue == tally' = [tally EXCEPT !.enqueued = @ + 1]

TallyAdvance(c) ==
    tally' = [tally EXCEPT
                 !.returned = IF Truthy(last'.ret) THEN Append(@, last'.ret) ELSE @,
                 !.dropped = @ + (IF Retires(c) THEN Overflow(c, DefaultMaxHistory) ELSE 0)]

NextHistory ==
    \/ /\ NewTrack(SoloChat) <= MaxFresh
       /\ AddToQueue(SoloChat, NewTrack(SoloChat))
       /\ QueueWithin(MaxQueue)
       /\ TallyEnqueue
       /\ UNCHANGED <<log, music, held>>
    \/ GetNextTrack(SoloChat) /\ TallyAdvance(SoloChat) /\ UNCHANGED <<log, music, held>>

SpecHistory == Init /\ [][NextHistory]_vars

(***************************************************************************)
(* SpecEnqueue: the two enqueue operations, get_next_track and the two     *)
(* shuffle operations on one chat, each call logged as in SpecTrace, up to *)
(* MaxCalls calls.                                                         *)
(***************************************************************************)
\* the lists offered to add_tracks_to_queue
ListInputs == {<<>>, <<2, 1>>}

NextEnqueue ==
    \/ \E t \in Tracks :
          Len(log) < MaxCalls /\ AddToQueue(SoloChat, t) /\ QueueWithin(MaxPending) /\ Logged
    \/ \E ts \in ListInputs :
          Len(log) < MaxCalls /\ AddTracksToQueue(SoloChat, ts) /\ QueueWithin(MaxPending) /\ Logged
    \/ Len(log) < MaxCalls /\ GetNextTrack(SoloChat) /\ Logged
    \/ \E e \in BOOLEAN : Len(log) < MaxCalls /\ SetShuffleMode(SoloChat, e) /\ Logged
    \/ Len(log) < MaxCalls /\ ToggleShuffleMode(SoloChat) /\ Logged

SpecEnqueue == Init /\ [][NextEnqueue]_vars

\* the logged call is one of the two enqueue operations
IsEnqueue(call) == call.op \in {"add_to_queue", "add_tracks_to_queue"}

\* the tracks an enqueue call was given, in the order given
Enqueued(call) == IF call.op = "add_to_queue" THEN <<call.args[1]>> ELSE call.args[1]

(***************************************************************************)
(* SpecDistinct: one chat; every enqueue is of a track not enqueued before *)
(* (the n-th enqueue is of track n), up to MaxDistinct enqueues, and the   *)
(* loop mode is only ever set to none or single.                           *)
(***************************************************************************)
NextDistinct ==
    \/ /\ tally.enqueued < MaxDistinct
       /\ AddToQueue(SoloChat, tally.enqueued + 1)
       /\ TallyEnqueue
       /\ UNCHANGED <<log, music, held>>
    \/ GetNextTrack(SoloChat) /\ UNCHANGED <<log, mvars>>
    \/ GetPreviousTrack(SoloChat) /\ UNCHANGED <<log, mvars>>
    \/ ClearQueue(SoloChat) /\ UNCHANGED <<log, mvars>>
    \/ \E e \in BOOLEAN : SetShuffleMode(SoloChat, e) /\ UNCHANGED <<log, mvars>>
    \/ ToggleShuffleMode(SoloChat) /\ UNCHANGED <<log, mvars>>
    \/ \E m \in {"none", "single"} : SetLoopMode(SoloChat, m) /\ UNCHANGED <<log, mvars>>

SpecDistinct == Init /\ [][NextDistinct]_vars

(***************************************************************************)
(* SpecRoundTrip: add_to_queue of a track not held by the session,         *)
(* get_next_track and get_previous_track on one chat with loop mode none,  *)
(* each call appended to log, up to MaxRoundCalls calls.                   *)
(***************************************************************************)
NextRoundTrip ==
    \/ Len(log) < MaxRoundCalls /\ AddToQueue(SoloChat, NewTrack(SoloChat)) /\ Logged
    \/ Len(log) < MaxRoundCalls /\ GetNextTrack(SoloChat) /\ Logged
    \/ Len(log) < MaxRoundCalls /\ GetPreviousTrack(SoloChat) /\ Logged

SpecRoundTrip == Init /\ [][NextRoundTrip]_vars

(***************************************************************************)
(* SpecModes: clear_queue, add_to_queue, get_next_track and                *)
(* toggle_loop_mode on one chat, each call logged as in SpecTrace, up to   *)
(* MaxModeCalls calls.  Consecutive logged calls are calls made with no    *)
(* other call in between, as the calls of one handler between two awaits.  *)
(***************************************************************************)
NextModes ==
    \/ Len(log) < MaxModeCalls /\ ClearQueue(SoloChat) /\ Logged
    \/ \E t \in Tracks : Len(log) < MaxModeCalls /\ AddToQueue(SoloChat, t) /\ Logged
    \/ Len(log) < MaxModeCalls /\ GetNextTrack(SoloChat) /\ Logged
    \/ Len(log) < MaxModeCalls /\ ToggleLoopMode(SoloChat) /\ Logged

SpecModes == Init /\ [][NextModes]_vars

\* the logged calls i+1..j are all calls of op
CallsOnly(op, i, j) == j <= Len(log) /\ \A k \in (i + 1)..j : log[k].call.op = op

(***************************************************************************)
(* SpecAlias: a caller that keeps the list get_queue returned and changes  *)
(* it, between add_to_queue, clear_queue and get_next_track calls on the   *)
(* chat.                                                                   *)
(***************************************************************************)
HeldWithin(n) == Len(Contents(held)') <= n

NextAlias ==
    \/ HoldQueue(SoloChat) /\ UNCHANGED <<log, music, tally>>
    \/ \E t \in Tracks : CallerAppend(t) /\ HeldWithin(MaxQueue) /\ UNCHANGED <<log, music, tally>>
    \/ CallerPop /\ UNCHANGED <<log, music, tally>>
    \/ CallerReverse /\ UNCHANGED <<log, music, tally>>
    \/ \E t \in Tracks : AddToQueue(SoloChat, t) /\ QueueWithin(MaxQueue) /\ UNCHANGED <<log, mvars>>
    \/ ClearQueue(SoloChat) /\ Rebound(SoloChat) /\ UNCHANGED <<log, music, tally>>
    \/ GetNextTrack(SoloChat) /\ HistoryWithin(HistCap) /\ UNCHANGED <<log, mvars>>

SpecAlias == Init /\ [][NextAlias]_vars

(***************************************************************************)
(* SpecMusic: the commands, sent in either of two chats, in any order;     *)
(* /play and /previous are offered while the MusicService queue and        *)
(* history stay within MaxQueue and HistCap.                               *)
(***************************************************************************)
MusicWithin(maxq, hcap) == Len(music'.queue) <= maxq /\ Len(music'.history) <= hcap

NextMusic ==
    \E c \in Chats :
        \/ \E found \in Tracks \cup {None} : PlayCommand(c, found) /\ MusicWithin(MaxQueue, HistCap)
        \/ PauseCommand(c)
        \/ ResumeCommand(c)
        \/ StopCommand(c)
        \/ SkipCommand(c) /\ MusicWithin(MaxQueue, HistCap)
        \/ PreviousCommand(c) /\ MusicWithin(MaxQueue, HistCap)
        \/ ClearCommand(c)
        \/ QueueCommand(c)
        \/ CurrentCommand(c)

SpecMusic == Init /\ [][NextMusic]_vars

(***************************************************************************)
(* SpecService: the methods of the one MusicService called directly, in    *)
(* any order, queue and history within MaxQueue and HistCap.               *)
(***************************************************************************)
Method(op, args, result) ==
    /\ music' = result.music
    /\ last' = Call(op, None, args, result.ret)
    /\ UNCHANGED <<svars, log, tally, held>>

NextService ==
    \/ \E t \in Tracks : Method("add_to_queue", <<t>>, MusicAddToQueue(music, t)) /\ MusicWithin(MaxQueue, HistCap)
    \/ Method("play_next", <<>>, PlayNext(music)) /\ MusicWithin(MaxQueue, HistCap)
    \/ Method("skip_music", <<>>, SkipMusic(music)) /\ MusicWithin(MaxQueue, HistCap)
    \/ Method("previous_music", <<>>, PreviousMusic(music)) /\ MusicWithin(MaxQueue, HistCap)
    \/ Method("clear_queue", <<>>, MusicClearQueue(music))
    \/ Method("pause_music", <<>>, PauseMusic(music))
    \/ Method("resume_music", <<>>, ResumeMusic(music))
    \/ Method("stop_music", <<>>, StopMusic(music))
    \/ Method("toggle_loop", <<>>, ToggleLoop(music))

SpecService == Init /\ [][NextService]_vars

(***************************************************************************)
(* The claims.                                                             *)
(***************************************************************************)
\* number of occurrences of x in s
Count(s, x) == Cardinality({i \in 1..Len(s) : s[i] = x})

\* the step is a call of op addressed to chat c
Called(op, c) == last'.op = op /\ last'.chat = c

\* get_next_track's single-loop replay path applies to chat c
SingleReplay(c) == GetLoopMode(c) = "single" /\ GetCurrentTrack(c) # None

----------------------------------------------------------------------------
\* C1 (as amended): from a session with loop mode none whose pending queue
\* holds N tracks, the k-th of k <= N consecutive get_next_track calls returns
\* the k-th pending track, makes it the current track and leaves the tracks
\* after it pending; so N calls empty the pending queue, no fewer do, and the
\* session is then playing the N-th track.  A further call returns None.
C1_FifoDrain ==
    \A i \in 0..Len(log) :
        LET s == StateAt(i)
            N == Len(s.queue)
        IN  s.loop = "none" =>
              /\ \A k \in 1..N :
                    NextsOnly(i, i + k) =>
                       /\ log[i + k].call.ret = s.queue[k]
                       /\ log[i + k].after.current = s.queue[k]
                       /\ log[i + k].after.queue = SubSeq(s.queue, k + 1, N)
              /\ NextsOnly(i, i + N + 1) => log[i + N + 1].call.ret = None

\* C1 witness: three pending tracks, not all the same, drained by three calls.
C1_Witness ==
    \E i \in 0..Len(log) :
        /\ StateAt(i).loop = "none"
        /\ Len(StateAt(i).queue) = 3
        /\ StateAt(i).queue[1] # StateAt(i).queue[2]
        /\ NextsOnly(i, i + 3)

\* C1 as stated: after the N calls (N >= 1) that return the N pending tracks in
\* order, the session is Idle (no current track).
C1_Original ==
    \A i \in 0..Len(log) :
        LET s == StateAt(i)
            N == Len(s.queue)
        IN  (s.loop = "none" /\ N >= 1 /\ NextsOnly(i, i + N)) =>
              /\ \A k \in 1..N : log[i + k].call.ret = s.queue[k]
              /\ log[i + N].after.queue = <<>>
              /\ log[i + N].after.current = None

----------------------------------------------------------------------------
\* C2 as stated: a get_next_track call on a session whose pending queue is
\* empty, the single-loop replay path not applying, returns None and leaves the
\* session without a current track.
C2_Original ==
    [][\A c \in {SoloChat} :
          (Called("get_next_track", c) /\ GetQueue(c) = <<>> /\ ~SingleReplay(c)) =>
             (last'.ret = None /\ GetCurrentTrack(c)' = None)]_vars

----------------------------------------------------------------------------
\* C3 as stated: with loop mode single and a current track T, a get_next_track
\* call returns T and leaves pending and history unchanged, whatever pending holds.
C3_Original ==
    [][\A c \in {SoloChat} :
          (Called("get_next_track", c) /\ SingleReplay(c)) =>
             /\ last'.ret = GetCurrentTrack(c)
             /\ GetQueue(c)' = GetQueue(c)
             /\ History(c)' = History(c)]_vars

----------------------------------------------------------------------------
\* C4 as stated: get_previous_track on a non-empty history returns history[0],
\* makes it the current track, removes its first occurrence from history and,
\* if there was a current track, puts that at the front of pending.
C4_Original ==
    [][\A c \in {SoloChat} :
          (Called("get_previous_track", c) /\ History(c) # <<>>) =>
             /\ last'.ret = History(c)[1]
             /\ GetCurrentTrack(c)' = History(c)[1]
             /\ History(c)' = Tail(History(c))
             /\ GetQueue(c)' = IF GetCurrentTrack(c) # None
                               THEN <<GetCurrentTrack(c)>> \o GetQueue(c)
                               ELSE GetQueue(c)]_vars

----------------------------------------------------------------------------
\* C5: on a fresh session, add_to_queue(A), add_to_queue(B), get_next_track,
\* get_next_track, get_previous_track, get_next_track return (the last four)
\* A, B, A, B.
RoundTripOps ==
    <<"add_to_queue", "add_to_queue", "get_next_track", "get_next_track",
      "get_previous_track", "get_next_track">>

\* the first n logged calls are the first n calls of the round trip
RoundTripPrefix(n) == Len(log) >= n /\ \A k \in 1..n : log[k].call.op = RoundTripOps[k]

C5_RoundTrip ==
    \A n \in 3..6 :
        RoundTripPrefix(n) =>
            log[n].call.ret = (IF n \in {3, 5} THEN log[1].call.args[1] ELSE log[2].call.args[1])

\* C5 witness: the whole round trip has run, with two different tracks.
C5_Witness == RoundTripPrefix(6) /\ log[1].call.args[1] # log[2].call.args[1]

----------------------------------------------------------------------------
\* C6 as stated: when history holds exactly one entry and it equals the current
\* track, get_previous_track returns that track and pending holds as many
\* copies of it as before.
C6_Original ==
    [][\A c \in {SoloChat} :
          (/\ Called("get_previous_track", c)
           /\ Len(History(c)) = 1
           /\ History(c)[1] = GetCurrentTrack(c)) =>
             /\ last'.ret = GetCurrentTrack(c)
             /\ Count(GetQueue(c)', GetCurrentTrack(c)) = Count(GetQueue(c), GetCurrentTrack(c))]_vars

----------------------------------------------------------------------------
\* C7: from a session with loop mode all whose pending queue holds N >= 1
\* tracks, N consecutive get_next_track calls leave pending with its original
\* content and order, and the (N+1)-th returns what the 1st returned.
C7_LoopAllCycles ==
    \A i \in 0..Len(log) :
        LET s == StateAt(i)
            N == Len(s.queue)
        IN  (s.loop = "all" /\ N >= 1) =>
              /\ NextsOnly(i, i + N) => log[i + N].after.queue = s.queue
              /\ NextsOnly(i, i + N + 1) => log[i + N + 1].call.ret = log[i + 1].call.ret

\* C7 witness: two different pending tracks under loop mode all, and three calls.
C7_Witness ==
    \E i \in 0..Len(log) :
        /\ StateAt(i).loop = "all"
        /\ Len(StateAt(i).queue) = 2
        /\ StateAt(i).queue[1] # StateAt(i).queue[2]
        /\ NextsOnly(i, i + 3)

----------------------------------------------------------------------------
\* C8: history never holds more than 50 entries, and a get_next_track call that
\* retires a current track puts it at index 0 of history, before the entries
\* history held, of which only those beyond the 50th place are dropped.
RetiresCurrent(c) ==
    /\ Called("get_next_track", c)
    /\ GetQueue(c) # <<>>
    /\ GetCurrentTrack(c) # None
    /\ ~SingleReplay(c)

C8_HistoryBound ==
    /\ [](\A c \in DOMAIN history : Len(history[c]) <= 50)
    /\ [][\A c \in {SoloChat} :
             RetiresCurrent(c) =>
                /\ Len(History(c)') = (IF Len(History(c)) < 50 THEN Len(History(c)) + 1 ELSE 50)
                /\ History(c)'[1] = GetCurrentTrack(c)
                /\ \A j \in 2..Len(History(c)') : History(c)'[j] = History(c)[j - 1]]_vars

\* C8 witness: history is full and its oldest entries (tracks 1 and 2) are gone.
C8_Witness ==
    /\ last.op = "get_next_track"
    /\ Len(History(SoloChat)) = 50
    /\ History(SoloChat)[50] = 3
    /\ History(SoloChat)[1] = 52

----------------------------------------------------------------------------
\* C9 (as amended): set_loop_mode with a value outside {none, single, all} is
\* not rejected: it stores "none" as the loop mode and returns it, and leaves
\* every other field as it was.
InvalidModeCall(c) ==
    Called("set_loop_mode", c) /\ last'.args[1] \notin {"none", "single", "all"}

----------------------------------------------------------------------------
\* C10: a call addressed to one chat leaves every other chat's entry in each
\* of the five dictionaries as it was (absent, or present with the same value).
SameEntry(d, e, c) == (c \in DOMAIN d <=> c \in DOMAIN e) /\ (c \in DOMAIN d => d[c] = e[c])

C10_ChatsIsolated ==
    [][\A b \in Chats :
          b # last'.chat =>
             /\ SameEntry(queues, queues', b)
             /\ SameEntry(current_tracks, current_tracks', b)
             /\ SameEntry(history, history', b)
             /\ SameEntry(loop_modes, loop_modes', b)
             /\ SameEntry(shuffle_modes, shuffle_modes', b)]_vars

\* C10 witness: chat 2 has a queue, a current track, a history and both modes
\* set, and the last call (a clear_queue) was addressed to chat 1.
C10_Witness ==
    /\ last.op = "clear_queue"
    /\ last.chat = 1
    /\ GetQueue(2) # <<>>
    /\ GetCurrentTrack(2) # None
    /\ History(2) # <<>>
    /\ GetLoopMode(2) = "all"
    /\ GetShuffleMode(2)

----------------------------------------------------------------------------
\* C11 as stated: a /play, /skip, /previous, /clear or /queue command sent in
\* one chat leaves the queue, current track and history that these commands
\* show and act on in every other chat as they were.
SeenIn(b) ==
    [queue |-> MusicGetQueue(music).ret, current |-> CurrentMusic(music).ret, history |-> music.history]

C11_Original ==
    [][\A b \in Chats :
          (last'.op \in {"/play", "/skip", "/previous", "/clear", "/queue"} /\ last'.chat # b) =>
             SeenIn(b)' = SeenIn(b)]_vars

----------------------------------------------------------------------------
\* C12: however the add_to_queue and get_next_track calls on one session (loop
\* mode none) interleave, no track is duplicated or lost: the pending tracks,
\* the current track and the history entries together number the enqueues made
\* minus the entries dropped by history overflow, no track is held twice, and
\* no track is returned by two get_next_track calls.
HeldTracks(c) ==
    GetQueue(c) \o (IF GetCurrentTrack(c) # None THEN <<GetCurrentTrack(c)>> ELSE <<>>) \o History(c)

NoRepeat(s) == \A i, j \in 1..Len(s) : s[i] = s[j] => i = j

C12_NoTrackLostOrDuplicated ==
    /\ Len(HeldTracks(SoloChat)) = tally.enqueued - tally.dropped
    /\ NoRepeat(HeldTracks(SoloChat))
    /\ NoRepeat(tally.returned)
    /\ \A i \in 1..Len(tally.returned) : tally.returned[i] \in 1..tally.enqueued

\* C12 witness: history has overflowed, over fifty tracks have been returned and
\* a track is still pending.
C12_Witness ==
    /\ tally.dropped >= 1
    /\ Len(tally.returned) > 50
    /\ GetQueue(SoloChat) # <<>>

----------------------------------------------------------------------------
\* C13: when the first two calls that address an unseen chat are enqueues (two
\* handlers enqueueing at once, run in either order), the chat's pending queue
\* then holds the tracks of both: the second call does not construct the queue
\* a second time.
C13_FirstEnqueuesBothKept ==
    (Len(log) >= 2 /\ IsEnqueue(log[1].call) /\ IsEnqueue(log[2].call)) =>
        log[2].after.queue = Enqueued(log[1].call) \o Enqueued(log[2].call)

\* C13 witness: the first two calls were add_to_queue calls with different tracks.
C13_Witness ==
    /\ Len(log) = 2
    /\ log[1].call.op = "add_to_queue"
    /\ log[2].call.op = "add_to_queue"
    /\ log[1].call.args[1] # log[2].call.args[1]

----------------------------------------------------------------------------
\* C14: a get_next_track or get_previous_track call that returns None has
\* changed nothing: the five dictionaries, and so the session's pending queue,
\* current track, history, loop mode and shuffle flag, are as before the call.
C14_AbsentLeavesSession ==
    [][\A c \in {SoloChat} :
          ((Called("get_next_track", c) \/ Called("get_previous_track", c)) /\ last'.ret = None) =>
             (UNCHANGED svars /\ Session(c)' = Session(c))]_vars

\* C14 witness: get_next_track has returned None on a session that has a
\* current track, a history, and loop and shuffle modes set.
C14_Witness ==
    /\ last.op = "get_next_track"
    /\ last.ret = None
    /\ GetCurrentTrack(SoloChat) # None
    /\ History(SoloChat) # <<>>
    /\ GetLoopMode(SoloChat) = "all"
    /\ GetShuffleMode(SoloChat)

----------------------------------------------------------------------------
\* C15: in every reachable state, a call other than get_next_track made while
\* the session has no current track leaves it without one; get_previous_track
\* in particular.
C15_OnlyAdvanceStarts ==
    [][\A c \in {SoloChat} :
          (GetCurrentTrack(c) = None /\ last'.op # "get_next_track") =>
             GetCurrentTrack(c)' = None]_vars

\* C15 witness: get_previous_track has been called on a session with pending
\* tracks and no current track, and there is still none.
C15_Witness ==
    /\ last.op = "get_previous_track"
    /\ GetCurrentTrack(SoloChat) = None
    /\ Len(GetQueue(SoloChat)) = 2

----------------------------------------------------------------------------
\* C16 (as amended): get_queue returns no copy.  For a chat that has a queue
\* entry it returns the pending list itself: appending to, popping from or
\* reversing the returned list changes the pending queue in the same way, and
\* a later add_to_queue or get_next_track shows in the list returned earlier;
\* only clear_queue, which installs a new list, leaves the returned list with
\* the tracks it had.  For a chat without an entry it returns a new empty list,
\* and changing that list leaves the session alone.
CallerOps == {"list.append", "list.pop", "list.reverse"}

\* what a caller's operation makes of the tracks s
AfterCallerOp(call, s) ==
    IF call.op = "list.append" THEN Append(s, call.args[1])
    ELSE IF call.op = "list.pop" THEN Tail(s)
    ELSE Reverse(s)

----------------------------------------------------------------------------
\* C17 (as amended): set_shuffle_mode and toggle_shuffle_mode reorder pending
\* only when the call leaves shuffle enabled, and then only by permuting it: a
\* call that leaves shuffle disabled (set_shuffle_mode(false), a toggle from
\* true) leaves the order of pending as it was, whereas set_shuffle_mode(true)
\* on a session whose shuffle is already enabled shuffles pending once more.
IsShuffleOp(call) == call.op \in {"set_shuffle_mode", "toggle_shuffle_mode"}

\* t is s in some order
Permutation(s, t) == Len(s) = Len(t) /\ \A x \in Tracks : Count(s, x) = Count(t, x)

C17_ReorderOnlyWhenEnabling ==
    \A i \in 1..Len(log) :
        IsShuffleOp(log[i].call) =>
            /\ log[i].after.shuffle = log[i].call.ret
            /\ log[i].call.op = "set_shuffle_mode" => log[i].call.ret = log[i].call.args[1]
            /\ log[i].call.op = "toggle_shuffle_mode" => log[i].call.ret = ~StateAt(i - 1).shuffle
            /\ ~log[i].call.ret => log[i].after.queue = StateAt(i - 1).queue
            /\ Permutation(StateAt(i - 1).queue, log[i].after.queue)

\* C17 witness: set_shuffle_mode(true) on a session whose shuffle was already
\* enabled has changed the order of pending.
C17_Witness ==
    \E i \in 1..Len(log) :
        /\ log[i].call.op = "set_shuffle_mode"
        /\ log[i].call.ret
        /\ StateAt(i - 1).shuffle
        /\ log[i].after.queue # StateAt(i - 1).queue

\* C17 as stated: a shuffle call that does not change the flag from false to
\* true leaves the order of pending as it was.
C17_Original ==
    \A i \in 1..Len(log) :
        (IsShuffleOp(log[i].call) /\ ~(~StateAt(i - 1).shuffle /\ log[i].after.shuffle)) =>
            log[i].after.queue = StateAt(i - 1).queue

----------------------------------------------------------------------------
\* C18: a shuffle call that leaves shuffle enabled changes only the order of
\* pending: pending is afterwards a permutation of what it was (same length,
\* each track as often), the current track and history are as they were, and
\* an add_to_queue that follows puts its track after the shuffled entries,
\* which keep their order.
C18_ShuffleOnlyPermutes ==
    \A i \in 1..Len(log) :
        (IsShuffleOp(log[i].call) /\ log[i].call.ret) =>
            /\ Permutation(StateAt(i - 1).queue, log[i].after.queue)
            /\ log[i].after.current = StateAt(i - 1).current
            /\ log[i].after.history = StateAt(i - 1).history
            /\ log[i].after.loop = StateAt(i - 1).loop
            /\ (i < Len(log) /\ log[i + 1].call.op = "add_to_queue") =>
                   log[i + 1].after.queue = Append(log[i].after.queue, log[i + 1].call.args[1])

\* C18 witness: shuffle was enabled on a playing session with two different
\* pending tracks, their order changed, and a track was enqueued next.
C18_Witness ==
    \E i \in 1..(Len(log) - 1) :
        /\ IsShuffleOp(log[i].call)
        /\ ~StateAt(i - 1).shuffle
        /\ log[i].after.shuffle
        /\ StateAt(i - 1).current # None
        /\ Len(StateAt(i - 1).queue) = 2
        /\ log[i].after.queue # StateAt(i - 1).queue
        /\ log[i + 1].call.op = "add_to_queue"

----------------------------------------------------------------------------
\* C19: after any run of add_to_queue and add_tracks_to_queue calls with no
\* other call in between, the pending queue get_queue returns is the pending
\* queue from before the run followed by the tracks enqueued, in the order of
\* the calls and, within a call, of its list.
RECURSIVE EnqueuedBy(_, _)
\* the tracks the logged calls a..b were given, in order
EnqueuedBy(a, b) == IF a > b THEN <<>> ELSE Enqueued(log[a].call) \o EnqueuedBy(a + 1, b)

C19_EnqueueKeepsOrder ==
    \A i \in 0..Len(log) : \A j \in i..Len(log) :
        (\A k \in (i + 1)..j : IsEnqueue(log[k].call)) =>
            StateAt(j).queue = StateAt(i).queue \o EnqueuedBy(i + 1, j)

\* C19 witness: onto a pending queue that a call other than an enqueue left
\* non-empty, a track and then a list of two tracks were enqueued.
C19_Witness ==
    \E i \in 1..(Len(log) - 2) :
        /\ ~IsEnqueue(log[i].call)
        /\ StateAt(i).queue # <<>>
        /\ log[i + 1].call.op = "add_to_queue"
        /\ log[i + 2].call.op = "add_tracks_to_queue"
        /\ Len(log[i + 2].call.args[1]) = 2
        /\ log[i + 2].call.args[1][1] # log[i + 2].call.args[1][2]

----------------------------------------------------------------------------
\* C20: clear_queue leaves the chat's pending queue empty and the current
\* track, history, loop mode and shuffle flag exactly as they were.
C20_ClearOnlyEmptiesPending ==
    [][\A c \in {SoloChat} :
          Called("clear_queue", c) =>
             /\ c \in DOMAIN queues'
             /\ GetQueue(c)' = <<>>
             /\ last'.ret = TRUE
             /\ UNCHANGED <<current_tracks, history, loop_modes, shuffle_modes>>]_vars

\* C20 witness: clear_queue has run on a session that is playing, has a
\* history of two tracks, loops a single track and has shuffle enabled.
C20_Witness ==
    /\ last.op = "clear_queue"
    /\ GetQueue(SoloChat) = <<>>
    /\ GetCurrentTrack(SoloChat) # None
    /\ Len(History(SoloChat)) = 2
    /\ GetLoopMode(SoloChat) = "single"
    /\ GetShuffleMode(SoloChat)

----------------------------------------------------------------------------
\* C21: toggle_loop_mode moves none to single, single to all and all to none,
\* stores the new mode and returns it, and leaves the rest of the session as
\* it was; so three consecutive toggles restore the loop mode they started from.
CycleAfter(mode) ==
    CASE mode = "none" -> "single"
      [] mode = "single" -> "all"
      [] mode = "all" -> "none"

C21_ToggleCycles ==
    \A i \in 0..Len(log) :
        /\ CallsOnly("toggle_loop_mode", i, i + 1) =>
              /\ log[i + 1].call.ret = CycleAfter(StateAt(i).loop)
              /\ log[i + 1].after = [StateAt(i) EXCEPT !.loop = CycleAfter(StateAt(i).loop)]
        /\ CallsOnly("toggle_loop_mode", i, i + 3) => log[i + 3].after = StateAt(i)

\* C21 witness: three consecutive toggles on a playing session whose loop mode
\* was single.
C21_Witness ==
    \E i \in 0..Len(log) :
        /\ StateAt(i).loop = "single"
        /\ StateAt(i).current # None
        /\ CallsOnly("toggle_loop_mode", i, i + 3)

----------------------------------------------------------------------------
\* C22: when every enqueued track is a new one and the loop mode is never set
\* to all, then in every state reached by enqueue, get_next_track,
\* get_previous_track, clear_queue and the shuffle operations the current
\* track does not occur in pending.
C22_CurrentNotPending ==
    \A c \in {SoloChat} :
        GetCurrentTrack(c) # None => ~Contains(GetQueue(c), GetCurrentTrack(c))

\* C22 witness: get_previous_track has put the track that was current in front
\* of a pending track, under loop mode single and with shuffle enabled.
C22_Witness ==
    /\ last.op = "get_previous_track"
    /\ last.ret # None
    /\ Len(GetQueue(SoloChat)) = 2
    /\ History(SoloChat) # <<>>
    /\ GetLoopMode(SoloChat) = "single"
    /\ GetShuffleMode(SoloChat)

----------------------------------------------------------------------------
\* C23: a chat that no call has addressed yet (it has no entry in any of the
\* five dictionaries) reads as the initial session: empty pending, no current
\* track, empty history, loop mode none, shuffle off.  On such a chat
\* get_next_track and get_previous_track return None and leave it without
\* entries, and a first add_to_queue leaves exactly the added track pending.
Unseen(c) ==
    /\ c \notin DOMAIN queues
    /\ c \notin DOMAIN current_tracks
    /\ c \notin DOMAIN history
    /\ c \notin DOMAIN loop_modes
    /\ c \notin DOMAIN shuffle_modes

C23_UnseenIsInitial ==
    [][\A c \in Chats :
          Unseen(c) =>
             /\ Session(c) = FreshSession
             /\ Called("get_next_track", c) => last'.ret = None /\ Unseen(c)'
             /\ Called("get_previous_track", c) => last'.ret = None /\ Unseen(c)'
             /\ Called("add_to_queue", c) =>
                    Session(c)' = [FreshSession EXCEPT !.queue = <<last'.args[1]>>]]_vars

\* C23 witness: get_previous_track was called on chat 2, which still has no
\* entries, while chat 1 has a current track, a history and loop mode all.
C23_Witness ==
    /\ last.op = "get_previous_track"
    /\ last.chat = 2
    /\ last.ret = None
    /\ Unseen(2)
    /\ GetCurrentTrack(1) # None
    /\ History(1) # <<>>
    /\ GetLoopMode(1) = "all"

----------------------------------------------------------------------------
\* C24: remove_from_queue(index) returns None and changes nothing when the chat
\* has no queue or index is negative or not below the pending length; otherwise
\* it returns the pending track at index, and pending afterwards is the old
\* pending without that position, everything else as before.
InRange(c, index) == c \in DOMAIN queues /\ 0 <= index /\ index < Len(queues[c])

----------------------------------------------------------------------------
----------------------------------------------------------------------------
\* C26 as stated: in every state of the MusicService reached by play_next,
\* skip_music, previous_music, add_to_queue and clear_queue, a current track
\* that is set is the first history entry.
C26_Original ==
    Truthy(music.current_track) =>
        music.history # <<>> /\ music.history[1] = music.current_track

----------------------------------------------------------------------------
\* C27 as stated: with loop_mode single and a current track T, skip_music
\* returns T and leaves the queue and the history exactly as they were.
C27_Original ==
    [][(last'.op = "skip_music" /\ music.loop_mode = "single" /\ Truthy(music.current_track)) =>
          /\ last'.ret = music.current_track
          /\ music'.queue = music.queue
          /\ music'.history = music.history]_vars

----------------------------------------------------------------------------
\* C30 as stated: in every state of the MusicService reached by play_next,
\* skip_music, previous_music, pause_music, resume_music and stop_music,
\* is_paused implies is_playing, so resume_music never succeeds while nothing
\* is playing.
C30_Original ==
    music.is_paused => music.is_playing

----------------------------------------------------------------------------
\* C28 as stated: when clear_queue, add_to_queue(T) and get_next_track are
\* called one after the other on a chat, the get_next_track call returns T and
\* the chat's current track is then T, in every loop mode and whatever was
\* current before.
C28_Original ==
    \A i \in 1..(Len(log) - 2) :
        (/\ log[i].call.op = "clear_queue"
         /\ log[i + 1].call.op = "add_to_queue"
         /\ log[i + 2].call.op = "get_next_track") =>
            /\ log[i + 2].call.ret = log[i + 1].call.args[1]
            /\ log[i + 2].after.current = log[i + 1].call.args[1]

----------------------------------------------------------------------------
\* C29 as stated: in a session with loop mode none, a current track and a
\* non-empty history of any length, get_previous_track followed at once by
\* get_next_track leaves current track, pending and history (content and
\* order) as they were before the get_previous_track call.
C29_Original ==
    \A i \in 1..(Len(log) - 1) :
        (/\ log[i].call.op = "get_previous_track"
         /\ log[i + 1].call.op = "get_next_track"
         /\ StateAt(i - 1).loop = "none"
         /\ StateAt(i - 1).current # None
         /\ StateAt(i - 1).history # <<>>) =>
            log[i + 1].after = StateAt(i - 1)

====
